---- MODULE Spec2Model ----
\* A model of package logger (src/logger.go): the constructors New and NewTag,
\* the Sentry handler, the combined (JSON + Sentry) handler, and the parts of
\* log/slog and sentry-go they are written against.
EXTENDS Integers, Sequences, FiniteSets, TLC

VARIABLES
    scope,      \* which callers run and which level strings they use (fixed by Init)
    hub,        \* the client bound to sentry's process-wide hub (sentry.Init binds it)
    status,     \* per owner: "idle" | "built" | "failed" ("literal": the fixture)
    asked,      \* per owner: what it asked its constructor for (level string, DSN, tag)
    heap,       \* per owner: the handlers its constructor and its derivations made
    loggers,    \* per owner: the loggers it holds (the built one, then derived ones)
    last        \* the call being made and what it did; Idle between calls

vars == <<scope, hub, status, asked, heap, loggers, last>>

\* ---------------------------------------------------------------- bounds

\* Derived loggers (Logger.With / Logger.WithGroup calls) in a behaviour.
MaxDerive == 1

\* ------------------------------------------------------------- constants

\* log/slog severity values.
LevelDebug == -4
LevelInfo == 0
LevelWarn == 4
LevelError == 8

\* Severities a record is emitted with: the four named ones, one below debug,
\* one between info and warn, one above error.
Levels == {LevelDebug - 4, LevelDebug, LevelInfo, LevelInfo + 2, LevelWarn,
           LevelError, LevelError + 4}

Nil == "nil"
NoClient == "no client"
NoTag == "no tag"
WriteError == "write error"

\* Two callers that each build a logger, and a test fixture ("T") holding a
\* sentryHandler literal with a chained next handler.
Callers == {"A", "B"}
Fixture == "T"
Owners == Callers \cup {Fixture}

LogLevels == {"debug", "info", "warn", "error", "", "WARN"}
GoodDSNs == {"https://a@sentry.example/1", "https://b@sentry.example/2"}
BadDSN == "not a dsn"
DSNs == {"", BadDSN} \cup GoodDSNs
Configs == [LogLevel : LogLevels, SentryDSN : DSNs, EnableSentry : BOOLEAN]
TagFor == [A |-> "X", B |-> "Y"]

\* Attribute lists: a sequence of <<key, value>>.
RecordAttrs == {<< >>, << <<"k", "v1">>, <<"k", "v2">> >>}
DerivedAttrs == {<< <<"a", "1">> >>}
GroupNames == {"g"}
Records == [level : Levels, msg : {"m"}, attrs : RecordAttrs]

\* ------------------------------------------------------------ sentry-go

\* sentry.Init: builds a client from the options; a malformed DSN is an error
\* and leaves the hub as it was; otherwise the new client is bound to the hub.
sentry_Init(dsn, h) ==
    IF dsn = BadDSN
    THEN [err |-> "invalid dsn", hub |-> h]
    ELSE [err |-> Nil, hub |-> dsn]

\* sentry.CaptureMessage inside sentry.WithScope: one event for the hub's
\* client, with the scope's level and extras; nothing when no client is bound.
sentry_CaptureMessage(h, env, lvl, extras, message) ==
    IF env.hub = NoClient
    THEN << >>
    ELSE << [ev |-> "capture", h |-> h, dsn |-> env.hub, level |-> lvl,
             extras |-> extras, msg |-> message] >>

\* -------------------------------------------------------------- log/slog

\* slog.NewJSONHandler(os.Stdout, opts): no attributes, no open group.
NewJSONHandler(lvl) ==
    [kind |-> "json", minLevel |-> lvl, pre |-> << >>, groups |-> << >>]

\* JSONHandler.Enabled: the level is at or above opts.Level.
JSONHandler_Enabled(self, lvl) == lvl >= self.minLevel

\* The attributes as JSON fields, each under the open groups.
Qualify(groups, attrs) ==
    [i \in 1..Len(attrs) |-> <<groups \o <<attrs[i][1]>>, attrs[i][2]>>]

\* JSONHandler.Handle: writes one line to stdout: level, message, the
\* handler's attributes, then the record's under the open groups. It does not
\* look at the level. A failed write is the error returned.
JSONHandler_Handle(hp, h, record, env) ==
    IF env.stdout
    THEN [trace |-> << [ev |-> "json", h |-> h, ok |-> TRUE,
                        line |-> [level |-> record.level, msg |-> record.msg,
                                  fields |-> hp[h].pre \o
                                      Qualify(hp[h].groups, record.attrs)]] >>,
          err |-> Nil]
    ELSE [trace |-> << [ev |-> "json", h |-> h, ok |-> FALSE] >>,
          err |-> WriteError]

\* JSONHandler.WithAttrs: a new handler that also writes attrs, under the
\* groups open now.
JSONHandler_WithAttrs(hp, h, attrs) ==
    [heap |-> Append(hp, [hp[h] EXCEPT !.pre = @ \o Qualify(hp[h].groups, attrs)]),
     ref |-> Len(hp) + 1]

\* JSONHandler.WithGroup: a new handler with one more open group.
JSONHandler_WithGroup(hp, h, name) ==
    [heap |-> Append(hp, [hp[h] EXCEPT !.groups = Append(@, name)]),
     ref |-> Len(hp) + 1]

\* ------------------------------------------------------- package logger

\* level without its "warn" case.
level_NoWarnCase(LogLevel) ==
    CASE LogLevel = "debug" -> LevelDebug
      [] LogLevel = "info" -> LevelInfo
      [] LogLevel = "error" -> LevelError
      [] OTHER -> LevelInfo

\* The switch of New on config.LogLevel.
level(LogLevel) ==
    CASE LogLevel = "debug" -> LevelDebug
      [] LogLevel = "info" -> LevelInfo
      [] LogLevel = "warn" -> LevelWarn
      [] LogLevel = "error" -> LevelError
      [] OTHER -> LevelInfo

\* slogToSentryLevel with error as its default.
slogToSentryLevel_DefaultError(lvl) ==
    CASE lvl = LevelDebug -> "debug"
      [] lvl = LevelInfo -> "info"
      [] lvl = LevelWarn -> "warning"
      [] OTHER -> "error"

slogToSentryLevel(lvl) ==
    CASE lvl = LevelDebug -> "debug"
      [] lvl = LevelInfo -> "info"
      [] lvl = LevelWarn -> "warning"
      [] lvl = LevelError -> "error"
      [] OTHER -> "info"

\* The attrs map of sentryHandler.Handle: attrs[a.Key] = a.Value.Any() for each
\* attribute of the record in order, so the last value of a key stays.
RecordExtras(attrs) ==
    LET keys == {attrs[i][1] : i \in 1..Len(attrs)}
        lastOf(k) == CHOOSE i \in 1..Len(attrs) :
                        /\ attrs[i][1] = k
                        /\ \A j \in 1..Len(attrs) : attrs[j][1] = k => j <= i
    IN [k \in keys |-> attrs[lastOf(k)][2]]

RECURSIVE Handle(_, _, _, _)
RECURSIVE WithAttrs(_, _, _)
RECURSIVE WithGroup(_, _, _)
RECURSIVE Enabled(_, _, _)

sentryHandler_Handle(hp, h, record, env) ==
    LET self == hp[h]
        entry == << [ev |-> "sentry", h |-> h] >>
    IN IF record.level < self.minLogLevel /\ self.next # 0
       THEN LET n == Handle(hp, self.next, record, env)
            IN [trace |-> entry \o n.trace, err |-> n.err]
       ELSE LET sent == sentry_CaptureMessage(h, env,
                            slogToSentryLevel(record.level),
                            RecordExtras(record.attrs), record.msg)
            IN IF self.next # 0
               THEN LET n == Handle(hp, self.next, record, env)
                    IN [trace |-> entry \o sent \o n.trace, err |-> n.err]
               ELSE [trace |-> entry \o sent, err |-> Nil]

sentryHandler_Enabled(hp, h, lvl) == lvl >= hp[h].minLogLevel

\* sentryHandler.WithAttrs returning a handler with the default threshold.
sentryHandler_WithAttrs_DefaultThreshold(hp, h, attrs) ==
    [heap |-> Append(hp, [kind |-> "sentry", next |-> hp[h].next,
                          minLogLevel |-> LevelWarn]),
     ref |-> Len(hp) + 1]

sentryHandler_WithAttrs(hp, h, attrs) ==
    [heap |-> Append(hp, [kind |-> "sentry", next |-> hp[h].next,
                          minLogLevel |-> hp[h].minLogLevel]),
     ref |-> Len(hp) + 1]

sentryHandler_WithGroup(hp, h, name) ==
    [heap |-> Append(hp, [kind |-> "sentry", next |-> hp[h].next,
                          minLogLevel |-> hp[h].minLogLevel]),
     ref |-> Len(hp) + 1]

\* combinedHandler.Handle going on to the sentry handler after a JSON error.
combinedHandler_Handle_IgnoresError(hp, h, record, env) ==
    LET self == hp[h]
        entry == << [ev |-> "combined", h |-> h] >>
        j == Handle(hp, self.jsonHandler, record, env)
        s == Handle(hp, self.sentryHandler, record, env)
    IN [trace |-> entry \o j.trace \o s.trace, err |-> s.err]

combinedHandler_Handle(hp, h, record, env) ==
    LET self == hp[h]
        entry == << [ev |-> "combined", h |-> h] >>
        j == Handle(hp, self.jsonHandler, record, env)
    IN IF j.err # Nil
       THEN [trace |-> entry \o j.trace, err |-> j.err]
       ELSE LET s == Handle(hp, self.sentryHandler, record, env)
            IN [trace |-> entry \o j.trace \o s.trace, err |-> s.err]

combinedHandler_Enabled(hp, h, lvl) ==
    Enabled(hp, hp[h].jsonHandler, lvl) \/ Enabled(hp, hp[h].sentryHandler, lvl)

\* combinedHandler.WithAttrs keeping the JSON handler it had.
combinedHandler_WithAttrs_SameJSON(hp, h, attrs) ==
    LET s == WithAttrs(hp, hp[h].sentryHandler, attrs)
    IN [heap |-> Append(s.heap, [kind |-> "combined",
                                 jsonHandler |-> hp[h].jsonHandler,
                                 sentryHandler |-> s.ref]),
        ref |-> Len(s.heap) + 1]

combinedHandler_WithAttrs(hp, h, attrs) ==
    LET j == WithAttrs(hp, hp[h].jsonHandler, attrs)
        s == WithAttrs(j.heap, hp[h].sentryHandler, attrs)
    IN [heap |-> Append(s.heap, [kind |-> "combined", jsonHandler |-> j.ref,
                                 sentryHandler |-> s.ref]),
        ref |-> Len(s.heap) + 1]

combinedHandler_WithGroup(hp, h, name) ==
    LET j == WithGroup(hp, hp[h].jsonHandler, name)
        s == WithGroup(j.heap, hp[h].sentryHandler, name)
    IN [heap |-> Append(s.heap, [kind |-> "combined", jsonHandler |-> j.ref,
                                 sentryHandler |-> s.ref]),
        ref |-> Len(s.heap) + 1]

\* A call through the slog.Handler interface: the method of the handler's type.
Handle(hp, h, record, env) ==
    CASE hp[h].kind = "json" -> JSONHandler_Handle(hp, h, record, env)
      [] hp[h].kind = "sentry" -> sentryHandler_Handle(hp, h, record, env)
      [] hp[h].kind = "combined" -> combinedHandler_Handle(hp, h, record, env)

Enabled(hp, h, lvl) ==
    CASE hp[h].kind = "json" -> JSONHandler_Enabled(hp[h], lvl)
      [] hp[h].kind = "sentry" -> sentryHandler_Enabled(hp, h, lvl)
      [] hp[h].kind = "combined" -> combinedHandler_Enabled(hp, h, lvl)

WithAttrs(hp, h, attrs) ==
    CASE hp[h].kind = "json" -> JSONHandler_WithAttrs(hp, h, attrs)
      [] hp[h].kind = "sentry" -> sentryHandler_WithAttrs(hp, h, attrs)
      [] hp[h].kind = "combined" -> combinedHandler_WithAttrs(hp, h, attrs)

WithGroup(hp, h, name) ==
    CASE hp[h].kind = "json" -> JSONHandler_WithGroup(hp, h, name)
      [] hp[h].kind = "sentry" -> sentryHandler_WithGroup(hp, h, name)
      [] hp[h].kind = "combined" -> combinedHandler_WithGroup(hp, h, name)

\* slog.Logger's emission methods (Debug, Info, Warn, Error, Log): nothing
\* when the handler is not enabled for the level; otherwise the record goes
\* to Handle, whose error is dropped.
Logger_log(hp, l, record, env) ==
    IF Enabled(hp, l, record.level)
    THEN Handle(hp, l, record, env).trace
    ELSE << >>

\* New calling sentry.Init whenever a DSN is given.
New_EnableFlagIgnored(cfg, h) ==
    LET jsonHandler == NewJSONHandler(level(cfg.LogLevel))
        sentryHandler == [kind |-> "sentry", next |-> 0, minLogLevel |-> LevelWarn]
        combinedHandler == [kind |-> "combined", jsonHandler |-> 1,
                            sentryHandler |-> 2]
        built == <<jsonHandler, sentryHandler, combinedHandler>>
    IN IF cfg.SentryDSN # ""
       THEN LET i == sentry_Init(cfg.SentryDSN, h)
            IN IF i.err # Nil
               THEN [logger |-> 0, err |-> "sentry.Init failed", heap |-> built,
                     hub |-> i.hub, inited |-> TRUE]
               ELSE [logger |-> 3, err |-> Nil, heap |-> built,
                     hub |-> i.hub, inited |-> TRUE]
       ELSE [logger |-> 1, err |-> Nil, heap |-> built, hub |-> h,
             inited |-> FALSE]

\* New going on after sentry.Init failed.
New_InitErrorIgnored(cfg, h) ==
    LET jsonHandler == NewJSONHandler(level(cfg.LogLevel))
        sentryHandler == [kind |-> "sentry", next |-> 0, minLogLevel |-> LevelWarn]
        combinedHandler == [kind |-> "combined", jsonHandler |-> 1,
                            sentryHandler |-> 2]
        built == <<jsonHandler, sentryHandler, combinedHandler>>
    IN IF cfg.EnableSentry /\ cfg.SentryDSN # ""
       THEN LET i == sentry_Init(cfg.SentryDSN, h)
            IN IF i.err # Nil
               THEN [logger |-> 3, err |-> Nil, heap |-> built,
                     hub |-> i.hub, inited |-> TRUE]
               ELSE [logger |-> 3, err |-> Nil, heap |-> built,
                     hub |-> i.hub, inited |-> TRUE]
       ELSE [logger |-> 1, err |-> Nil, heap |-> built, hub |-> h,
             inited |-> FALSE]

\* New: the logger is the reference of its handler in the heap New built;
\* 0 is the nil logger. inited tells whether sentry.Init was called.
New(cfg, h) ==
    LET jsonHandler == NewJSONHandler(level(cfg.LogLevel))
        sentryHandler == [kind |-> "sentry", next |-> 0, minLogLevel |-> LevelWarn]
        combinedHandler == [kind |-> "combined", jsonHandler |-> 1,
                            sentryHandler |-> 2]
        built == <<jsonHandler, sentryHandler, combinedHandler>>
    IN IF cfg.EnableSentry /\ cfg.SentryDSN # ""
       THEN LET i == sentry_Init(cfg.SentryDSN, h)
            IN IF i.err # Nil
               THEN [logger |-> 0, err |-> "sentry.Init failed", heap |-> built,
                     hub |-> i.hub, inited |-> TRUE]
               ELSE [logger |-> 3, err |-> Nil, heap |-> built,
                     hub |-> i.hub, inited |-> TRUE]
       ELSE [logger |-> 1, err |-> Nil, heap |-> built, hub |-> h,
             inited |-> FALSE]

NewTag(cfg, tag, h) ==
    LET r == New(cfg, h)
    IN IF r.err # Nil
       THEN [logger |-> 0, err |-> r.err, heap |-> r.heap, hub |-> r.hub,
             inited |-> r.inited]
       ELSE LET w == WithAttrs(r.heap, r.logger, << <<"tag", tag>> >>)
            IN [logger |-> w.ref, err |-> Nil, heap |-> w.heap, hub |-> r.hub,
                inited |-> r.inited]

\* ------------------------------------------------------------ the state

Idle == [op |-> "none"]

NoAsk == [LogLevel |-> "", dsn |-> "", tag |-> NoTag]

\* What a caller asked for: the level string, the DSN it wants its events sent
\* to ("" when it asked for no remote reporting), and the tag.
Ask(cfg, tag) ==
    [LogLevel |-> cfg.LogLevel,
     dsn |-> IF cfg.EnableSentry /\ cfg.SentryDSN # "" THEN cfg.SentryDSN ELSE "",
     tag |-> tag]

\* The fixture: a sentryHandler literal with a chained JSON handler at debug
\* and threshold error, and the logger slog.New makes of it.
FixtureHeap ==
    << NewJSONHandler(LevelDebug),
       [kind |-> "sentry", next |-> 1, minLogLevel |-> LevelError] >>

Root(h, how) == [handler |-> h, parent |-> 0, op |-> how, arg |-> << >>]

ConfigsOf(levels) == {cfg \in Configs : cfg.LogLevel \in levels}

InitWith(callers, levels) ==
    /\ scope = [callers |-> callers, levels |-> levels]
    /\ hub = NoClient
    /\ status = [o \in Owners |-> IF o = Fixture THEN "literal" ELSE "idle"]
    /\ asked = [o \in Owners |-> NoAsk]
    /\ heap = [o \in Owners |-> IF o = Fixture THEN FixtureHeap ELSE << >>]
    /\ loggers = [o \in Owners |->
                    IF o = Fixture THEN << Root(2, "literal") >> ELSE << >>]
    /\ last = Idle

\* One caller, every Config.
Init == InitWith({"A"}, LogLevels)

\* Two callers, each building its own logger from its own Config.
InitTwo == InitWith(Callers, {"info", "debug"})

Derived == Len(loggers["A"]) + Len(loggers["B"]) + Len(loggers[Fixture])
           - Cardinality({o \in Owners : loggers[o] # << >>})

\* A constructor call by caller c, with its result r.
Construct(c, cfg, tag, r, how) ==
    /\ hub' = r.hub
    /\ status' = [status EXCEPT ![c] = IF r.err = Nil THEN "built" ELSE "failed"]
    /\ asked' = [asked EXCEPT ![c] = IF r.err = Nil THEN Ask(cfg, tag) ELSE NoAsk]
    /\ heap' = [heap EXCEPT ![c] = IF r.err = Nil THEN r.heap ELSE << >>]
    /\ loggers' = [loggers EXCEPT ![c] =
                      IF r.err = Nil THEN << Root(r.logger, how) >> ELSE << >>]
    /\ last' = [op |-> how, c |-> c, cfg |-> cfg, tag |-> tag,
                logger |-> r.logger, err |-> r.err, inited |-> r.inited,
                hubBefore |-> hub]
    /\ UNCHANGED scope

DoNew(c) ==
    /\ last = Idle
    /\ c \in scope.callers
    /\ status[c] = "idle"
    /\ \E cfg \in ConfigsOf(scope.levels) : Construct(c, cfg, NoTag, New(cfg, hub), "New")

DoNewTag(c) ==
    /\ last = Idle
    /\ c \in scope.callers
    /\ status[c] = "idle"
    /\ \E cfg \in ConfigsOf(scope.levels) :
          Construct(c, cfg, TagFor[c], NewTag(cfg, TagFor[c], hub), "NewTag")

\* A derivation by owner c from its logger l, with its result w.
Derive(c, l, w, how, arg) ==
    /\ heap' = [heap EXCEPT ![c] = w.heap]
    /\ loggers' = [loggers EXCEPT ![c] =
                      Append(@, [handler |-> w.ref, parent |-> l, op |-> how,
                                 arg |-> arg])]
    /\ last' = [op |-> how, c |-> c, l |-> l]
    /\ UNCHANGED <<scope, hub, status, asked>>

\* logger.With(attrs...)
DoWith(c) ==
    /\ last = Idle
    /\ Derived < MaxDerive
    /\ \E l \in DOMAIN loggers[c], attrs \in DerivedAttrs :
          Derive(c, l, WithAttrs(heap[c], loggers[c][l].handler, attrs),
                 "With", attrs)

\* logger.WithGroup(name)
DoWithGroup(c) ==
    /\ last = Idle
    /\ Derived < MaxDerive
    /\ \E l \in DOMAIN loggers[c], name \in GroupNames :
          Derive(c, l, WithGroup(heap[c], loggers[c][l].handler, name),
                 "WithGroup", name)

\* logger.Debug / Info / Warn / Error / Log: one record through the logger.
DoLog(c) ==
    /\ last = Idle
    /\ \E l \in DOMAIN loggers[c], record \in Records, stdout \in BOOLEAN :
          last' = [op |-> "Log", c |-> c, l |-> l, record |-> record,
                   stdout |-> stdout,
                   trace |-> Logger_log(heap[c], loggers[c][l].handler, record,
                                        [stdout |-> stdout, hub |-> hub])]
    /\ UNCHANGED <<scope, hub, status, asked, heap, loggers>>

\* The handlers a logger's handler h leads to: itself and its branches.
Reach(hp, h) ==
    IF hp[h].kind = "combined"
    THEN {h, hp[h].jsonHandler, hp[h].sentryHandler}
    ELSE {h}

\* Handle called on a sentryHandler or a combinedHandler itself, as a test
\* inside the package does, without the logger's Enabled check before it.
DoHandle(c) ==
    /\ last = Idle
    /\ \E l \in DOMAIN loggers[c], record \in Records, stdout \in BOOLEAN :
       \E h \in Reach(heap[c], loggers[c][l].handler) :
          /\ heap[c][h].kind # "json"
          /\ LET r == Handle(heap[c], h, record, [stdout |-> stdout, hub |-> hub])
             IN last' = [op |-> "Handle", c |-> c, h |-> h, record |-> record,
                         stdout |-> stdout, trace |-> r.trace, err |-> r.err]
    /\ UNCHANGED <<scope, hub, status, asked, heap, loggers>>

\* The call returns to its caller.
Return ==
    /\ last # Idle
    /\ last' = Idle
    /\ UNCHANGED <<scope, hub, status, asked, heap, loggers>>

Next ==
    \/ \E c \in Callers : DoNew(c)
    \/ \E c \in Callers : DoNewTag(c)
    \/ \E c \in Owners : DoWith(c)
    \/ \E c \in Owners : DoWithGroup(c)
    \/ \E c \in Owners : DoLog(c)
    \/ \E c \in Owners : DoHandle(c)
    \/ Return

Spec == Init /\ [][Next]_vars

SpecTwo == InitTwo /\ [][Next]_vars

\* ------------------------------------------------------------ the claims

\* The threshold a level string stands for.
ConfiguredThreshold(s) ==
    IF s = "debug" THEN LevelDebug
    ELSE IF s = "warn" THEN LevelWarn
    ELSE IF s = "error" THEN LevelError
    ELSE LevelInfo

Captures(tr) == {i \in DOMAIN tr : tr[i].ev = "capture"}
SentryCalls(tr) == {i \in DOMAIN tr : tr[i].ev = "sentry"}
JSONCalls(tr) == {i \in DOMAIN tr : tr[i].ev = "json"}
JSONLines(tr) == {i \in JSONCalls(tr) : tr[i].ok}

\* A record went through a logger that a caller built.
Logged == last.op = "Log" /\ last.c \in Callers
\* ... and the logger's handler took it.
Handled == Logged /\ last.trace # << >>

\* C1: a logger built with remote reporting on submits a record it handles to
\* the remote service exactly once when the record is at or above warn, and not
\* at all when it is below; sentryHandler.Handle itself does so with respect to
\* its own threshold.
C1_RemoteIffAtOrAboveWarn ==
    /\ (Handled /\ asked[last.c].dsn # "") =>
          Cardinality(Captures(last.trace)) =
              IF last.record.level >= LevelWarn THEN 1 ELSE 0
    /\ (last.op = "Handle" /\ heap[last.c][last.h].kind = "sentry"
            /\ hub # NoClient) =>
          Cardinality(Captures(last.trace)) =
              IF last.record.level >= heap[last.c][last.h].minLogLevel
              THEN 1 ELSE 0

\* C2: in a combinedHandler.Handle call the JSON handler is called first; when
\* it fails the call ends there with that error and the sentry handler is not
\* called; when it succeeds the sentry handler is called next.
C2_JSONBeforeRemote ==
    last.op \in {"Log", "Handle"} =>
        \A i \in DOMAIN last.trace :
            last.trace[i].ev = "combined" =>
                LET tr == last.trace
                    self == heap[last.c][tr[i].h]
                IN /\ i + 1 <= Len(tr)
                   /\ tr[i + 1].ev = "json"
                   /\ tr[i + 1].h = self.jsonHandler
                   /\ ~tr[i + 1].ok =>
                         /\ Len(tr) = i + 1
                         /\ SentryCalls(tr) = {}
                         /\ Captures(tr) = {}
                         /\ last.op = "Handle" => last.err = WriteError
                   /\ tr[i + 1].ok =>
                         /\ i + 2 <= Len(tr)
                         /\ tr[i + 2].ev = "sentry"
                         /\ tr[i + 2].h = self.sentryHandler
                         /\ SentryCalls(tr) = {i + 2}

C2_Witness ==
    /\ last.op = "Handle"
    /\ heap[last.c][last.h].kind = "combined"
    /\ ~last.stdout
    /\ last.record.level = LevelError
    /\ last.err = WriteError

\* C3: New with EnableSentry false or an empty DSN does not call sentry.Init and
\* returns a logger on the JSON handler alone; a record through that logger or
\* a logger derived from it never reaches a sentry handler or the remote
\* service, and reaches the JSON handler when it is at or above the level.
C3_JSONOnly ==
    /\ (last.op \in {"New", "NewTag"}
            /\ ~(last.cfg.EnableSentry /\ last.cfg.SentryDSN # "")) =>
          /\ ~last.inited
          /\ hub = last.hubBefore
          /\ last.err = Nil
          /\ last.logger # 0
          /\ heap[last.c][loggers[last.c][1].handler].kind = "json"
    /\ (Logged /\ status[last.c] = "built" /\ asked[last.c].dsn = "") =>
          /\ Captures(last.trace) = {}
          /\ SentryCalls(last.trace) = {}
          /\ last.record.level >= ConfiguredThreshold(asked[last.c].LogLevel) =>
                Cardinality(JSONCalls(last.trace)) = 1

C3_Witness ==
    /\ Logged
    /\ asked[last.c].dsn = ""
    /\ last.l > 1
    /\ last.record.level = LevelError
    /\ Cardinality(JSONLines(last.trace)) = 1

\* C4: the remote events of a caller's logger go to the DSN of the Config that
\* caller built it from, and its JSON lines have its own tag and no other,
\* whatever another caller builds or logs.
C4_Independent ==
    Logged =>
        /\ last.record.level >= LevelWarn =>
              \A i \in Captures(last.trace) :
                  last.trace[i].dsn = asked[last.c].dsn
        /\ \A i \in JSONLines(last.trace) :
              \A f \in DOMAIN last.trace[i].line.fields :
                  last.trace[i].line.fields[f][1] = <<"tag">> =>
                      last.trace[i].line.fields[f][2] = asked[last.c].tag

\* C5: every JSON line of a logger built by NewTag(config, X), or of a logger
\* derived from it, has the top-level field tag = X.
C5_TagOnEveryLine ==
    (Logged /\ asked[last.c].tag # NoTag) =>
        \A i \in JSONLines(last.trace) :
            \E f \in DOMAIN last.trace[i].line.fields :
                last.trace[i].line.fields[f] = << <<"tag">>, asked[last.c].tag >>

C5_Witness ==
    /\ Logged
    /\ asked[last.c].tag # NoTag
    /\ asked[last.c].dsn # ""
    /\ loggers[last.c][last.l].op = "WithGroup"
    /\ JSONLines(last.trace) # {}

\* C6: New and NewTag return an error exactly when remote reporting is asked
\* for and the client cannot be set up; then they return the nil logger, and
\* the caller holds no logger and no tagged logger.
C6_InitFailure ==
    last.op \in {"New", "NewTag"} =>
        LET rejected == /\ last.cfg.EnableSentry
                        /\ last.cfg.SentryDSN = BadDSN
        IN /\ rejected <=> last.err # Nil
           /\ rejected =>
                 /\ last.logger = 0
                 /\ status[last.c] = "failed"
                 /\ loggers[last.c] = << >>
                 /\ hub = last.hubBefore
           /\ ~rejected => last.logger # 0

C6_Witness ==
    /\ last.op = "NewTag"
    /\ last.err # Nil
    /\ last.logger = 0

\* The JSON handler a logger writes through: its handler, or the JSON branch
\* of its combined handler.
JSONBranch(o, l) ==
    LET h == loggers[o][l].handler
    IN IF heap[o][h].kind = "combined" THEN heap[o][h].jsonHandler ELSE h

\* C7: the JSON handler of a logger New built is enabled for exactly the
\* levels at or above the threshold its level string names, and at or above
\* info for any other string.
C7_Threshold ==
    (last.op \in {"New", "NewTag"} /\ last.err = Nil) =>
        \A lvl \in Levels :
            Enabled(heap[last.c], JSONBranch(last.c, 1), lvl)
                <=> lvl >= ConfiguredThreshold(last.cfg.LogLevel)

C7_Witness ==
    /\ last.op = "New"
    /\ last.cfg.LogLevel = "warn"
    /\ last.err = Nil
    /\ Enabled(heap[last.c], JSONBranch(last.c, 1), LevelWarn)
    /\ ~Enabled(heap[last.c], JSONBranch(last.c, 1), LevelInfo)

\* The remote severity of a level.
RemoteSeverity(lvl) ==
    IF lvl = LevelDebug THEN "debug"
    ELSE IF lvl = LevelWarn THEN "warning"
    ELSE IF lvl = LevelError THEN "error"
    ELSE "info"

\* C8: slogToSentryLevel maps debug, info, warn and error to debug, info,
\* warning and error and every other level to info, and each remote event has
\* the severity it gives for the record's level.
C8_LevelMapping ==
    /\ \A lvl \in Levels : slogToSentryLevel(lvl) = RemoteSeverity(lvl)
    /\ last.op \in {"Log", "Handle"} =>
          \A i \in Captures(last.trace) :
              last.trace[i].level = RemoteSeverity(last.record.level)

C8_Witness ==
    /\ last.op = "Log"
    /\ last.record.level = LevelInfo + 2
    /\ \E i \in Captures(last.trace) : last.trace[i].level = "info"

\* C9: a logger built with remote reporting on writes no JSON line for a
\* record below the level it was configured with.
C9_BelowThresholdNotWritten ==
    (Logged /\ asked[last.c].dsn # ""
        /\ last.record.level < ConfiguredThreshold(asked[last.c].LogLevel)) =>
        JSONLines(last.trace) = {}

\* The sentry handler a handler sends remote events through, 0 when none.
SentryOf(o, h) ==
    IF heap[o][h].kind = "combined" THEN heap[o][h].sentryHandler
    ELSE IF heap[o][h].kind = "sentry" THEN h
    ELSE 0

\* The fields and open groups a logger was derived with, from how it and the
\* loggers before it were made.
RECURSIVE Carried(_, _)
Carried(o, l) ==
    LET g == loggers[o][l]
    IN IF g.parent = 0
       THEN [pre |-> IF g.op = "NewTag"
                     THEN << << <<"tag">>, asked[o].tag >> >>
                     ELSE << >>,
             groups |-> << >>]
       ELSE LET p == Carried(o, g.parent)
            IN IF g.op = "With"
               THEN [pre |-> p.pre \o
                        [i \in 1..Len(g.arg) |->
                            <<p.groups \o <<g.arg[i][1]>>, g.arg[i][2]>>],
                     groups |-> p.groups]
               ELSE [pre |-> p.pre, groups |-> Append(p.groups, g.arg)]

C10_Derived ==
    /\ \A o \in Owners : \A l \in DOMAIN loggers[o] :
          LET from == loggers[o][l].parent
          IN from # 0 =>
                LET d == SentryOf(o, loggers[o][l].handler)
                    s == SentryOf(o, loggers[o][from].handler)
                IN s # 0 =>
                      /\ d # 0
                      /\ d # s
                      /\ heap[o][d].minLogLevel = heap[o][s].minLogLevel
                      /\ heap[o][d].next = heap[o][s].next
                      /\ DOMAIN heap[o][d] = {"kind", "next", "minLogLevel"}
    /\ last.op \in {"Log", "Handle"} =>
          \A i \in Captures(last.trace) :
              LET x == last.trace[i].extras
                  a == last.record.attrs
              IN /\ DOMAIN x = {a[n][1] : n \in DOMAIN a}
                 /\ \A k \in DOMAIN x : \E n \in DOMAIN a : a[n] = <<k, x[k]>>
    /\ (last.op = "Log"
            /\ heap[last.c][loggers[last.c][last.l].handler].kind = "combined") =>
          \A i \in JSONLines(last.trace) :
              LET w == Carried(last.c, last.l)
                  a == last.record.attrs
              IN last.trace[i].line.fields =
                    w.pre \o [n \in 1..Len(a) |->
                                <<w.groups \o <<a[n][1]>>, a[n][2]>>]

C10_Frame ==
    \A o \in Owners : \A i \in DOMAIN heap[o] :
        i \in DOMAIN heap'[o] /\ heap'[o][i] = heap[o][i]

====
